---- MODULE Spec2Model ----
(***************************************************************************)
(* Model of the airac crate (src/src/lib.rs): the AIRAC cycle locator      *)
(* from_ymd / current, the neighbours previous / next, the accessors       *)
(* starts / ends and the Display implementation.                           *)
(*                                                                         *)
(* A NaiveDate is represented by its day number in the proleptic Gregorian *)
(* calendar (day 1 = 0001-01-01), which is the quantity chrono's date      *)
(* arithmetic and ordering work on.  An AIRAC value, a tuple struct around *)
(* one NaiveDate, is represented by that date.                             *)
(***************************************************************************)
EXTENDS Integers, Sequences, FiniteSets

\* ------------------------------------------------------------------ bounds
\* Calendar years before / after the anchor year from which targets are drawn.
YearsBack == 2
YearsFwd == 2

\* ------------------------------------------------------- program constants
AnchorYear == 2020
AnchorMonth == 1
AnchorDay == 2
CYCLE_LENGTH == 28

MinYear == AnchorYear - YearsBack
MaxYear == AnchorYear + YearsFwd

\* --------------------------------------------------- the calendar (chrono)
IsLeap(yr) == (yr % 4 = 0 /\ yr % 100 # 0) \/ yr % 400 = 0

DaysInMonth(yr, mo) ==
    IF mo = 2 THEN (IF IsLeap(yr) THEN 29 ELSE 28)
    ELSE IF mo \in {4, 6, 9, 11} THEN 30 ELSE 31

\* Days of the proleptic Gregorian calendar before 1 January of yr.
DaysBeforeYear(yr) ==
    365 * (yr - 1) + ((yr - 1) \div 4) - ((yr - 1) \div 100) + ((yr - 1) \div 400)

RECURSIVE DaysBeforeMonth(_, _)
DaysBeforeMonth(yr, mo) ==
    IF mo = 1 THEN 0 ELSE DaysBeforeMonth(yr, mo - 1) + DaysInMonth(yr, mo - 1)

\* NaiveDate::from_ymd(y, m, d)
NaiveDate_from_ymd(yr, mo, dy) == DaysBeforeYear(yr) + DaysBeforeMonth(yr, mo) + dy

RECURSIVE YearFrom(_, _)
YearFrom(yr, date) ==
    IF date <= DaysBeforeYear(yr + 1) THEN yr ELSE YearFrom(yr + 1, date)

\* Datelike::year()
year(date) == YearFrom(date \div 366, date)

\* The "%y" format item: the year modulo 100.
format_y(date) == year(date) % 100

\* The digits "{:02}" prints for a non-negative integer: at least two.
RECURSIVE Digits(_)
Digits(n) == IF n < 10 THEN <<n>> ELSE Digits(n \div 10) \o <<n % 10>>

pad02(n) == IF n < 10 THEN <<0, n>> ELSE Digits(n)

START_DATE == NaiveDate_from_ymd(AnchorYear, AnchorMonth, AnchorDay)

\* The (y, m, d) triples NaiveDate::from_ymd accepts, within the bounds.
ValidYMD ==
    {t \in (MinYear..MaxYear) \X (1..12) \X (1..31) : t[3] <= DaysInMonth(t[1], t[2])}

\* ------------------------------------------------------ AIRAC's operations
\* Mutant of previous: the sign of the step slipped.
previous_forward(c) == c + CYCLE_LENGTH

\* Mutant of previous: one day short of a cycle.
previous_short(c) == c - (CYCLE_LENGTH - 1)

previous(c) == c - CYCLE_LENGTH

\* Mutant of next: one day more than a cycle.
next_long(c) == c + CYCLE_LENGTH + 1

next(c) == c + CYCLE_LENGTH

starts(c) == c

\* Mutant of ends: the last effective day instead of the exclusive bound.
ends_inclusive(c) == c + CYCLE_LENGTH - 1

ends(c) == c + CYCLE_LENGTH

\* derive(PartialOrd, Ord) on the one-field tuple struct: the dates' order.
AIRAC_lt(c1, c2) == c1 < c2

\* from_ymd: which loop runs, and when each loop breaks.
moves_backward(y) == y < AnchorYear

backward_break(airac_date, target) == airac_date < target

\* Mutant of forward_break: the comparison made non-strict.
forward_break_nonstrict(airac_date, target) == airac_date + CYCLE_LENGTH >= target

forward_break(airac_date, target) == airac_date + CYCLE_LENGTH > target

\* Display: when the counting loop breaks, and what is written.
\* Mutant of fmt_break: the year of a's end instead of a's start.
fmt_break_on_end(a, self) == year(ends(a)) # year(starts(self))

fmt_break(a, self) == year(starts(a)) # year(starts(self))

\* Mutant of fmt_write: the count written without the + 1.
fmt_write_zero_based(self, airac_count) == pad02(format_y(self)) \o pad02(airac_count)

fmt_write(self, airac_count) == pad02(format_y(self)) \o pad02(airac_count + 1)

\* ------------------------------------------------------------------- state
VARIABLES
    pc,          \* "start" | "back" | "fwd" | "returned" | "idle" | "fmt" | "shown"
    args,        \* from_ymd's arguments <<y, m, d>>, <<>> outside a call
    target,      \* from_ymd's local target
    airac_date,  \* from_ymd's local cursor
    moves,       \* how many times from_ymd has moved its cursor
    passes,      \* how many times from_ymd has entered its loop body
    self,        \* the AIRAC value at hand (its start date), 0 before the first
    a,           \* Display's local a
    airac_count, \* Display's local airac_count
    calls,       \* how many times Display has called previous()
    out,         \* what Display wrote: a sequence of digits
    last         \* <<start, out>> of the cycle shown just before next(), or <<>>

vars == <<pc, args, target, airac_date, moves, passes, self, a, airac_count, calls, out, last>>

NoLocate == args' = <<>> /\ target' = 0 /\ airac_date' = 0 /\ moves' = 0 /\ passes' = 0

NoDisplay == a' = 0 /\ airac_count' = 0 /\ calls' = 0 /\ out' = <<>>

HasValue == pc \in {"returned", "idle", "shown"}

Init ==
    /\ pc = "start"
    /\ args = <<>> /\ target = 0 /\ airac_date = 0 /\ moves = 0 /\ passes = 0
    /\ self = 0
    /\ a = 0 /\ airac_count = 0 /\ calls = 0 /\ out = <<>>
    /\ last = <<>>

\* Lines 21-23 of from_ymd: the cursor, the target and the choice of loop.
Enter(t) ==
    /\ args' = t
    /\ airac_date' = START_DATE
    /\ target' = NaiveDate_from_ymd(t[1], t[2], t[3])
    /\ pc' = IF moves_backward(t[1]) THEN "back" ELSE "fwd"
    /\ moves' = 0 /\ passes' = 0
    /\ self' = 0
    /\ last' = <<>>
    /\ NoDisplay

\* from_ymd and current are associated functions that read no AIRAC value: a call
\* made later starts from the same locals, so the calls are made from "start".
from_ymd ==
    /\ pc = "start"
    /\ \E t \in ValidYMD : Enter(t)

\* today.year(), today.month(), today.day() of the clock's date, handed to from_ymd.
current ==
    /\ pc = "start"
    /\ \E today \in ValidYMD : Enter(today)

\* One pass of the backward loop.
BackwardPass ==
    /\ pc = "back"
    /\ airac_date' = airac_date - CYCLE_LENGTH
    /\ moves' = moves + 1
    /\ passes' = passes + 1
    /\ IF backward_break(airac_date', target)
         THEN pc' = "returned" /\ self' = airac_date'
         ELSE pc' = "back" /\ self' = self
    /\ UNCHANGED <<args, target, a, airac_count, calls, out, last>>

\* One pass of the forward loop.
ForwardPass ==
    /\ pc = "fwd"
    /\ passes' = passes + 1
    /\ IF forward_break(airac_date, target)
         THEN /\ pc' = "returned" /\ self' = airac_date
              /\ UNCHANGED <<airac_date, moves>>
         ELSE /\ airac_date' = airac_date + CYCLE_LENGTH
              /\ moves' = moves + 1
              /\ pc' = "fwd" /\ self' = self
    /\ UNCHANGED <<args, target, a, airac_count, calls, out, last>>

Previous ==
    /\ HasValue
    /\ year(previous(self)) >= MinYear - 1
    /\ self' = previous(self)
    /\ pc' = "idle"
    /\ last' = <<>>
    /\ NoLocate /\ NoDisplay

Next_ ==
    /\ HasValue
    /\ year(next(self)) <= MaxYear + 1
    /\ self' = next(self)
    /\ pc' = "idle"
    /\ last' = IF pc = "shown" THEN <<self, out>> ELSE <<>>
    /\ NoLocate /\ NoDisplay

\* Lines 74-75 of fmt.
Display ==
    /\ HasValue
    /\ pc' = "fmt"
    /\ a' = self
    /\ airac_count' = 0
    /\ calls' = 0
    /\ out' = <<>>
    /\ NoLocate
    /\ UNCHANGED <<self, last>>

\* One pass of fmt's loop; the pass that breaks also writes.
FmtPass ==
    /\ pc = "fmt"
    /\ a' = previous(a)
    /\ calls' = calls + 1
    /\ IF fmt_break(a', self)
         THEN /\ pc' = "shown"
              /\ out' = fmt_write(self, airac_count)
              /\ UNCHANGED airac_count
         ELSE /\ pc' = "fmt"
              /\ airac_count' = airac_count + 1
              /\ UNCHANGED out
    /\ UNCHANGED <<args, target, airac_date, moves, passes, self, last>>

Next ==
    \/ from_ymd
    \/ current
    \/ BackwardPass
    \/ ForwardPass
    \/ Previous
    \/ Next_
    \/ Display
    \/ FmtPass

Spec == Init /\ [][Next]_vars

\* A loop that is running takes its next pass: the program is sequential.
FairSpec == Spec /\ WF_vars(BackwardPass) /\ WF_vars(ForwardPass) /\ WF_vars(FmtPass)

\* ------------------------------------------------------------- reference
\* What the claims measure the program against, computed without the loops.
Span == 14 * (YearsBack + YearsFwd + 4)

\* The dates at a whole number of cycles from the anchor.
AlignedStarts == {START_DATE + CYCLE_LENGTH * k : k \in (0 - Span)..Span}

\* The start of the aligned 28-day interval [s, s + 28) that holds date.
Containing(date) == CHOOSE s \in AlignedStarts : s <= date /\ date < s + 28

\* The 1-based position of c among the aligned starts of c's calendar year.
Position(c) == Cardinality({s \in AlignedStarts : year(s) = year(c) /\ s <= c})

\* The number the last two digits of a displayed identifier spell.
ShownSeq(o) == o[Len(o) - 1] * 10 + o[Len(o)]

Abs(n) == IF n < 0 THEN 0 - n ELSE n

\* ----------------------------------------------------------------- claims

\* C1: containment. Whenever from_ymd returns for a target date D, the cycle C it
\* returns satisfies C.starts() <= D < C.ends().
C1_Containment ==
    pc = "returned" => (starts(self) <= target /\ target < ends(self))

\* C2: boundary tie-break. For every aligned cycle C, from_ymd of C.starts()
\* returns C and from_ymd of C.ends() returns C.next(), in either branch.
C2_BoundaryTieBreak ==
    pc = "returned" =>
        \A c \in AlignedStarts :
            /\ (target = starts(c) => self = c)
            /\ (target = ends(c) => self = next(c))

\* C3: anchor alignment. Every AIRAC value obtained from from_ymd, then any
\* sequence of previous() and next(), starts a multiple of 28 days from 2020-01-02.
C3_AnchorAligned ==
    pc \in {"returned", "idle", "fmt", "shown"} =>
        (starts(self) - NaiveDate_from_ymd(2020, 1, 2)) % 28 = 0

C3_Witness ==
    /\ pc = "idle"
    /\ starts(self) = NaiveDate_from_ymd(2020, 1, 2) - 3 * 28

\* C4: the identifier Display writes is the two-digit year of C.starts() followed
\* by the zero-padded two-digit 1-based position of C among the aligned cycle
\* starts of that calendar year; the cycles of 2020-12-31, 2019-05-13 and
\* 2022-05-23 are written 2014, 1905 and 2205.
C4_DisplayIdentifier ==
    pc = "shown" =>
        LET yy == year(starts(self)) % 100
            p == Position(self)
        IN  /\ out = <<yy \div 10, yy % 10, p \div 10, p % 10>>
            /\ (self = Containing(NaiveDate_from_ymd(2020, 12, 31)) => out = <<2, 0, 1, 4>>)
            /\ (self = Containing(NaiveDate_from_ymd(2019, 5, 13)) => out = <<1, 9, 0, 5>>)
            /\ (self = Containing(NaiveDate_from_ymd(2022, 5, 23)) => out = <<2, 2, 0, 5>>)

C4_Witness ==
    /\ pc = "shown"
    /\ self = Containing(NaiveDate_from_ymd(2019, 5, 13))
    /\ out = <<1, 9, 0, 5>>

\* C5: display sequence stepping. When C was displayed and then C.next() is
\* displayed, the number shown for C.next() is the number shown for C plus 1 if
\* both start in the same calendar year, and 1 otherwise.
C5_SequenceStepping ==
    (pc = "shown" /\ last # <<>>) =>
        /\ self = next(last[1])
        /\ IF year(starts(self)) = year(starts(last[1]))
             THEN ShownSeq(out) = ShownSeq(last[2]) + 1
             ELSE ShownSeq(out) = 1

C5_Witness ==
    /\ pc = "shown" /\ last # <<>>
    /\ year(starts(self)) # year(starts(last[1]))
    /\ ShownSeq(last[2]) = 14

\* C6: strict ordering of neighbours. Every cycle C lies strictly between
\* C.previous() and C.next() in the derived order.
C6_NeighbourOrder ==
    HasValue => (AIRAC_lt(previous(self), self) /\ AIRAC_lt(self, next(self)))

C6_Witness ==
    /\ pc = "returned"
    /\ args = <<2021, 6, 15>>
    /\ AIRAC_lt(previous(self), self) /\ AIRAC_lt(self, next(self))

\* C7: round trip of stepping. A previous() step is undone by next() and a next()
\* step is undone by previous().
C7_RoundTrip ==
    [][/\ (Previous => next(self') = self)
       /\ (Next_ => previous(self') = self)]_vars

C7_Witness ==
    /\ pc = "idle"
    /\ next(previous(self)) = self
    /\ previous(next(self)) = self
    /\ year(starts(self)) = 2019

\* C8: contiguity. C.ends() is C.starts() plus 28 days and is C.next().starts().
C8_Contiguity ==
    HasValue =>
        /\ ends(self) = starts(self) + 28
        /\ ends(self) = starts(next(self))

C8_Witness ==
    /\ pc = "returned"
    /\ args = <<2018, 2, 17>>
    /\ starts(self) = NaiveDate_from_ymd(2018, 2, 1)
    /\ ends(self) = NaiveDate_from_ymd(2018, 3, 1)

\* C9: Display's loop exits after at most 14 calls to previous(): the sequence
\* number it writes is between 1 and 14 and is written as exactly two digits.
C9_DisplayBound ==
    /\ pc = "fmt" => calls < 14
    /\ pc = "shown" =>
        /\ calls <= 14
        /\ airac_count + 1 \in 1..14
        /\ Len(out) = 4
        /\ ShownSeq(out) = airac_count + 1

C9_Witness ==
    /\ pc = "shown"
    /\ calls = 14
    /\ ShownSeq(out) = 14

====
